---- MODULE Spec2Model ----
(***************************************************************************)
(* The knowledge-base REST service (api/models.py, api/views.py,           *)
(* api/serializers.py, knowledge_base/settings.py) as a state machine.     *)
(* The store holds the Knowledge and KnowledgeImage tables; every action   *)
(* is one HTTP request handled from start to end, recorded in req/resp.    *)
(***************************************************************************)
EXTENDS Integers, Sequences, FiniteSets, TLC

VARIABLES
    knowledge,   \* Knowledge table: id -> row
    images,      \* KnowledgeImage table: id -> row
    nextKid,     \* next value of the Knowledge primary-key sequence
    nextImg,     \* next value of the KnowledgeImage primary-key sequence
    now,         \* the clock read by timezone.now() / auto_now / auto_now_add
    req,         \* the last request handled
    resp,        \* its response
    inflight     \* per worker: the request it has read the row for and not yet written

vars == <<knowledge, images, nextKid, nextImg, now, req, resp, inflight>>

-----------------------------------------------------------------------------
(* Bounds of the model *)

MaxRecords == 2      \* Knowledge rows ever created
MaxImages == 1       \* KnowledgeImage rows ever created
MaxTime == 4         \* clock readings (one per writing request)
MaxPageRecords == 42 \* Knowledge rows of a store that is listed page by page
MaxAdminImages == 2  \* KnowledgeImage rows of a store the admin site works on

-----------------------------------------------------------------------------
(* Values *)

\* deleted_at = NULL (models.py: null=True)
None == -1

\* settings.REST_FRAMEWORK['PAGE_SIZE']
PAGE_SIZE == 20

\* settings.REST_FRAMEWORK['MAX_PAGE_SIZE'] (a key the framework does not read)
MAX_PAGE_SIZE == 100

\* Strings are sequences of characters, so that case folding and substring
\* search are computed and not assumed.
Lower(c) ==
    CASE c = "A" -> "a"
      [] c = "B" -> "b"
      [] OTHER -> c

LowerStr(s) == [i \in 1..Len(s) |-> Lower(s[i])]

\* s occurs in t as a contiguous substring
Contains(t, s) ==
    \E i \in 0..(Len(t) - Len(s)) : \A j \in 1..Len(s) : t[i + j] = s[j]

\* the ORM lookup __icontains
IContains(t, s) == Contains(LowerStr(t), LowerStr(s))

UserIds == { <<"a">>, <<"A", "b">> }
Texts == { <<"b", "a">>, <<"B">> }
SearchTerms == { <<"a", "b">>, <<"b", "A">> }

\* JSON values a client can send as quiz
JsonList(items) == [kind |-> "list", items |-> items]
JsonOther(k) == [kind |-> k, items |-> <<>>]
QuizLists == { JsonList(<<>>), JsonList(<<"q1">>) }
QuizNonLists == { JsonOther(k) : k \in {"string", "number", "boolean", "object", "null"} }
QuizValues == QuizLists \cup QuizNonLists

\* An optional field of a request: <<>> when absent, <<v>> when given
Opt(S) == { <<>> } \cup { <<v>> : v \in S }
Given(o) == o # <<>>

Body(u, t, q) == [user_id |-> u, text |-> t, quiz |-> q]

\* The workers of the server that handle requests at the same time
Workers == { "w1", "w2" }
Idle == [op |-> "idle"]
NoneInFlight == [w \in Workers |-> Idle]

\* The query parameters of GET /knowledge/, each absent or given
NoFilters ==
    [user_id |-> <<>>, text__icontains |-> <<>>,
     created_at__gte |-> <<>>, created_at__lte |-> <<>>,
     updated_at__gte |-> <<>>, updated_at__lte |-> <<>>]
Query(s, n, p) ==
    [search |-> s, page_size |-> n, page |-> p, ordering |-> <<>>, filters |-> NoFilters]

-----------------------------------------------------------------------------
(* models.py *)

Kids == DOMAIN knowledge
ImgIds == DOMAIN images

\* A create that drops the quiz of the request and stores the field default
NewKnowledge_default_quiz(u, t, q) ==
    [user_id |-> u, text |-> t, quiz |-> <<>>,
     created_at |-> now, updated_at |-> now, deleted_at |-> None]

\* Knowledge.objects.create / serializer.save() of a new row
NewKnowledge(u, t, q) ==
    [user_id |-> u, text |-> t, quiz |-> q,
     created_at |-> now, updated_at |-> now, deleted_at |-> None]

\* Knowledge.soft_delete: deleted_at = timezone.now(); save(update_fields=['deleted_at'])
soft_delete(row) == [row EXCEPT !.deleted_at = now]

\* Knowledge.restore: deleted_at = None; save(update_fields=['deleted_at'])
restore(row) == [row EXCEPT !.deleted_at = None]

\* Knowledge.is_deleted
is_deleted(row) == row.deleted_at # None

\* knowledge.images (related_name='images')
ImagesOf(id) == { i \in ImgIds : images[i].knowledge = id }

\* Extend / shrink a table
Put(table, id, row) == [k \in DOMAIN table \cup {id} |-> IF k = id THEN row ELSE table[k]]
Drop(table, id) == [k \in DOMAIN table \ {id} |-> table[k]]

-----------------------------------------------------------------------------
(* serializers.py *)

\* A validate_quiz that returns the value without the isinstance check
validate_quiz_any(value) == TRUE

\* KnowledgeCreateSerializer.validate_quiz / KnowledgeUpdateSerializer.validate_quiz:
\* passes iff isinstance(value, list)
validate_quiz(value) == value.kind = "list"

\* The quiz field of both serializers: a JSONField that is not nullable
\* (models.py: no null=True), then validate_quiz; an absent quiz is accepted
\* (blank=True, default=list).
QuizFieldOk(body) ==
    Given(body.quiz) =>
        /\ body.quiz[1].kind # "null"
        /\ validate_quiz(body.quiz[1])

\* KnowledgeCreateSerializer.is_valid: fields user_id, text (required), quiz
CreateValid(body) ==
    /\ Given(body.user_id)
    /\ Given(body.text)
    /\ QuizFieldOk(body)

\* KnowledgeUpdateSerializer.is_valid: fields text, quiz; text is required
\* unless the update is partial (PATCH); user_id is not a field and is dropped
UpdateValid(body, partial) ==
    /\ (partial \/ Given(body.text))
    /\ QuizFieldOk(body)

\* An update serializer whose Meta.fields also lists user_id
UpdatedRow_user_id(row, body) ==
    [row EXCEPT
        !.user_id = IF Given(body.user_id) THEN body.user_id[1] ELSE @,
        !.text = IF Given(body.text) THEN body.text[1] ELSE @,
        !.quiz = IF Given(body.quiz) THEN body.quiz[1].items ELSE @,
        !.updated_at = now]

\* KnowledgeUpdateSerializer.save(): sets the validated fields that were given;
\* updated_at is auto_now
UpdatedRow(row, body) ==
    [row EXCEPT
        !.text = IF Given(body.text) THEN body.text[1] ELSE @,
        !.quiz = IF Given(body.quiz) THEN body.quiz[1].items ELSE @,
        !.updated_at = now]

-----------------------------------------------------------------------------
(* views.py, settings.py: the query layer *)

\* A get_queryset that forgets the deleted_at filter: Knowledge.objects.all()
get_queryset_all == Kids

\* KnowledgeViewSet.get_queryset: Knowledge.objects.filter(deleted_at__isnull=True)
get_queryset == { id \in Kids : knowledge[id].deleted_at = None }

\* settings.REST_FRAMEWORK['DEFAULT_FILTER_BACKENDS'] (the view sets none of its own)
FilterBackends == { "DjangoFilterBackend", "OrderingFilter" }

\* KnowledgeViewSet.search_fields: the view declares none
SearchFields == {}

\* The value of a row's field named f, for the search backend
FieldOf(id, f) == IF f = "user_id" THEN knowledge[id].user_id ELSE knowledge[id].text

\* GenericAPIView.filter_queryset for the search parameter: only a SearchFilter
\* among the backends reads ?search=, and it filters on the view's search_fields
SearchFiltered(ids, q) ==
    IF "SearchFilter" \in FilterBackends /\ SearchFields # {} /\ Given(q.search)
    THEN { id \in ids : \E f \in SearchFields : IContains(FieldOf(id, f), q.search[1]) }
    ELSE ids

\* A KnowledgeFilter whose user_id filter has lookup_expr='icontains'
KnowledgeFilter_user_contains(ids, f) ==
    { id \in ids :
        /\ Given(f.user_id) => IContains(knowledge[id].user_id, f.user_id[1])
        /\ Given(f.text__icontains) => IContains(knowledge[id].text, f.text__icontains[1])
        /\ Given(f.created_at__gte) => knowledge[id].created_at >= f.created_at__gte[1]
        /\ Given(f.created_at__lte) => knowledge[id].created_at <= f.created_at__lte[1]
        /\ Given(f.updated_at__gte) => knowledge[id].updated_at >= f.updated_at__gte[1]
        /\ Given(f.updated_at__lte) => knowledge[id].updated_at <= f.updated_at__lte[1] }

\* filters.py KnowledgeFilter, applied by DjangoFilterBackend: the rows of ids
\* that pass every filter given
KnowledgeFilter(ids, f) ==
    { id \in ids :
        /\ Given(f.user_id) => knowledge[id].user_id = f.user_id[1]
        /\ Given(f.text__icontains) => IContains(knowledge[id].text, f.text__icontains[1])
        /\ Given(f.created_at__gte) => knowledge[id].created_at >= f.created_at__gte[1]
        /\ Given(f.created_at__lte) => knowledge[id].created_at <= f.created_at__lte[1]
        /\ Given(f.updated_at__gte) => knowledge[id].updated_at >= f.updated_at__gte[1]
        /\ Given(f.updated_at__lte) => knowledge[id].updated_at <= f.updated_at__lte[1] }

\* Code points of the characters, for comparing strings
CharRank(c) ==
    CASE c = "A" -> 65
      [] c = "B" -> 66
      [] c = "a" -> 97
      [] c = "b" -> 98
      [] OTHER -> 0

\* s <= t in the lexicographic order of the code points
RECURSIVE StrLeq(_, _)
StrLeq(s, t) ==
    IF s = <<>> THEN TRUE
    ELSE IF t = <<>> THEN FALSE
    ELSE IF CharRank(Head(s)) # CharRank(Head(t)) THEN CharRank(Head(s)) < CharRank(Head(t))
    ELSE StrLeq(Tail(s), Tail(t))

\* KnowledgeViewSet.ordering_fields
ordering_fields == { "created_at", "updated_at", "user_id" }

\* KnowledgeViewSet.ordering
default_ordering == "-created_at"

Descending(term) == term \in { "-" \o f : f \in ordering_fields }
FieldOfTerm(term) ==
    CHOOSE f \in ordering_fields : term = f \/ term = "-" \o f

\* An OrderingFilter that ignores ?ordering= and always sorts by the default
get_ordering_default(q) == default_ordering

\* OrderingFilter.get_ordering: the ?ordering= term when it names one of
\* ordering_fields (with or without a leading '-'), else the view's ordering
get_ordering(q) ==
    IF Given(q.ordering)
       /\ \E f \in ordering_fields : q.ordering[1] = f \/ q.ordering[1] = "-" \o f
    THEN q.ordering[1]
    ELSE default_ordering

\* The row x sorts no later than the row y under ORDER BY term
KeyLeq(f, x, y) ==
    CASE f = "created_at" -> knowledge[x].created_at <= knowledge[y].created_at
      [] f = "updated_at" -> knowledge[x].updated_at <= knowledge[y].updated_at
      [] OTHER -> StrLeq(knowledge[x].user_id, knowledge[y].user_id)

NotAfter(f, desc, x, y) == IF desc THEN KeyLeq(f, y, x) ELSE KeyLeq(f, x, y)

\* Every sequence of the rows of ids that is sorted by field f (descending
\* if desc); rows with equal keys come in an order the database chooses
RECURSIVE SortedBy(_, _, _)
SortedBy(ids, f, desc) ==
    IF ids = {} THEN { <<>> }
    ELSE UNION { { <<x>> \o rest : rest \in SortedBy(ids \ {x}, f, desc) } :
                 x \in { x \in ids : \A y \in ids : NotAfter(f, desc, x, y) } }

\* queryset.order_by(term)
order_by(ids, term) == SortedBy(ids, FieldOfTerm(term), Descending(term))

\* PageNumberPagination.page_size_query_param: None. No pagination class of
\* the repository sets it, and the keys PAGE_SIZE_QUERY_PARAM and
\* MAX_PAGE_SIZE of settings.REST_FRAMEWORK are not read by the framework.
page_size_query_param == <<>>

Min(a, b) == IF a <= b THEN a ELSE b

\* PageNumberPagination.get_page_size
get_page_size(q) ==
    IF Given(page_size_query_param) /\ Given(q.page_size)
    THEN Min(q.page_size[1], MAX_PAGE_SIZE)
    ELSE PAGE_SIZE

\* A num_pages that forgets the last, partly filled page
NumPages_full_only(count, size) == IF count = 0 THEN 1 ELSE count \div size

\* Paginator.num_pages (allow_empty_first_page, no orphans)
NumPages(count, size) == IF count = 0 THEN 1 ELSE (count + size - 1) \div size

\* PageNumberPagination.paginate_queryset + get_paginated_response
Paginated(seq, q) ==
    LET size == get_page_size(q)
        page == IF Given(q.page) THEN q.page[1] ELSE 1
        count == Len(seq)
        last == NumPages(count, size)
    IN IF page < 1 \/ page > last
       THEN [status |-> 404]
       ELSE [status |-> 200,
             count |-> count,
             next |-> IF page < last THEN <<page + 1>> ELSE <<>>,
             previous |-> IF page > 1 THEN <<page - 1>> ELSE <<>>,
             results |-> SubSeq(seq, (page - 1) * size + 1, Min(page * size, count))]

\* GenericAPIView.filter_queryset(get_queryset()): the rows a list query selects
filter_queryset(q) == KnowledgeFilter(SearchFiltered(get_queryset, q), q.filters)

\* KnowledgeViewSet.list: the responses GET /knowledge/?q can give (one, unless
\* rows tie in the ordering)
ListResponses(q) ==
    { Paginated(seq, q) : seq \in order_by(filter_queryset(q), get_ordering(q)) }

-----------------------------------------------------------------------------
(* views.py: the request handlers.  Each action is one request. *)

Init ==
    /\ knowledge = << >>
    /\ images = << >>
    /\ nextKid = 1
    /\ nextImg = 1
    /\ now = 1
    /\ req = [op |-> "none"]
    /\ resp = [status |-> 0]
    /\ inflight = NoneInFlight

\* A request that changes nothing in the store
Answer(r, status) ==
    /\ req' = r
    /\ resp' = [status |-> status]
    /\ UNCHANGED <<knowledge, images, nextKid, nextImg, now, inflight>>

\* POST /knowledge/  (CreateModelMixin.create with KnowledgeCreateSerializer)
Create(body) ==
    LET r == [op |-> "create", body |-> body]
    IN IF ~CreateValid(body)
       THEN Answer(r, 400)
       ELSE /\ nextKid <= MaxRecords
            /\ now < MaxTime
            /\ knowledge' = Put(knowledge, nextKid,
                                NewKnowledge(body.user_id[1], body.text[1],
                                             IF Given(body.quiz) THEN body.quiz[1].items ELSE <<>>))
            /\ nextKid' = nextKid + 1
            /\ now' = now + 1
            /\ req' = r
            /\ resp' = [status |-> 201, id |-> nextKid]
            /\ UNCHANGED <<images, nextImg, inflight>>

\* An update that looks the row up in Knowledge.objects instead of get_queryset
Update_any(id, partial, body) ==
    LET r == [op |-> "update", id |-> id, partial |-> partial, body |-> body]
    IN IF id \notin Kids
       THEN Answer(r, 404)
       ELSE IF ~UpdateValid(body, partial)
       THEN Answer(r, 400)
       ELSE /\ now < MaxTime
            /\ knowledge' = [knowledge EXCEPT ![id] = UpdatedRow(@, body)]
            /\ now' = now + 1
            /\ req' = r
            /\ resp' = [status |-> 200, id |-> id]
            /\ UNCHANGED <<images, nextKid, nextImg, inflight>>

\* PUT / PATCH /knowledge/{id}/  (UpdateModelMixin.update; partial for PATCH)
Update(id, partial, body) ==
    LET r == [op |-> "update", id |-> id, partial |-> partial, body |-> body]
    IN IF id \notin get_queryset
       THEN Answer(r, 404)
       ELSE IF ~UpdateValid(body, partial)
       THEN Answer(r, 400)
       ELSE /\ now < MaxTime
            /\ knowledge' = [knowledge EXCEPT ![id] = UpdatedRow(@, body)]
            /\ now' = now + 1
            /\ req' = r
            /\ resp' = [status |-> 200, id |-> id]
            /\ UNCHANGED <<images, nextKid, nextImg, inflight>>

\* A destroy without the perform_destroy override: instance.delete(), which
\* removes the row and, by on_delete=CASCADE, its images
Destroy_hard(id) ==
    LET r == [op |-> "destroy", id |-> id]
    IN IF id \notin get_queryset
       THEN Answer(r, 404)
       ELSE /\ knowledge' = Drop(knowledge, id)
            /\ images' = [i \in ImgIds \ ImagesOf(id) |-> images[i]]
            /\ req' = r
            /\ resp' = [status |-> 204]
            /\ UNCHANGED <<nextKid, nextImg, now, inflight>>

\* A destroy that looks the row up in Knowledge.objects instead of get_queryset
Destroy_any(id) ==
    LET r == [op |-> "destroy", id |-> id]
    IN IF id \notin Kids
       THEN Answer(r, 404)
       ELSE /\ now < MaxTime
            /\ knowledge' = [knowledge EXCEPT ![id] = soft_delete(@)]
            /\ now' = now + 1
            /\ req' = r
            /\ resp' = [status |-> 204]
            /\ UNCHANGED <<images, nextKid, nextImg, inflight>>

\* DELETE /knowledge/{id}/  (DestroyModelMixin.destroy -> perform_destroy)
Destroy(id) ==
    LET r == [op |-> "destroy", id |-> id]
    IN IF id \notin get_queryset
       THEN Answer(r, 404)
       ELSE /\ now < MaxTime
            /\ knowledge' = [knowledge EXCEPT ![id] = soft_delete(@)]
            /\ now' = now + 1
            /\ req' = r
            /\ resp' = [status |-> 204]
            /\ UNCHANGED <<images, nextKid, nextImg, inflight>>

\* A restore that finds the row with self.get_object(), i.e. in get_queryset
Restore_get_object(id) ==
    LET r == [op |-> "restore", id |-> id]
    IN IF id \notin get_queryset
       THEN Answer(r, 404)
       ELSE IF knowledge[id].deleted_at = None
       THEN Answer(r, 400)
       ELSE /\ knowledge' = [knowledge EXCEPT ![id] = restore(@)]
            /\ req' = r
            /\ resp' = [status |-> 200, id |-> id]
            /\ UNCHANGED <<images, nextKid, nextImg, now, inflight>>

\* A restore without the "is not deleted" check
Restore_unchecked(id) ==
    LET r == [op |-> "restore", id |-> id]
    IN IF id \notin Kids
       THEN Answer(r, 404)
       ELSE /\ knowledge' = [knowledge EXCEPT ![id] = restore(@)]
            /\ req' = r
            /\ resp' = [status |-> 200, id |-> id]
            /\ UNCHANGED <<images, nextKid, nextImg, now, inflight>>

\* POST /knowledge/{id}/restore/  (KnowledgeViewSet.restore)
Restore(id) ==
    LET r == [op |-> "restore", id |-> id]
    IN IF id \notin Kids
       THEN Answer(r, 404)
       ELSE IF knowledge[id].deleted_at = None
       THEN Answer(r, 400)
       ELSE /\ knowledge' = [knowledge EXCEPT ![id] = restore(@)]
            /\ req' = r
            /\ resp' = [status |-> 200, id |-> id]
            /\ UNCHANGED <<images, nextKid, nextImg, now, inflight>>

\* An upload_image without the "No image file provided" check: the image
\* row is created with whatever request.FILES.get('image') returned
UploadImage_no_file_check(id, hasFile) ==
    LET r == [op |-> "upload_image", id |-> id, file |-> hasFile]
    IN IF id \notin get_queryset
       THEN Answer(r, 404)
       ELSE /\ nextImg <= MaxImages
            /\ now < MaxTime
            /\ images' = Put(images, nextImg, [knowledge |-> id, created_at |-> now])
            /\ nextImg' = nextImg + 1
            /\ now' = now + 1
            /\ req' = r
            /\ resp' = [status |-> 201, id |-> nextImg]
            /\ UNCHANGED <<knowledge, nextKid, inflight>>

\* POST /knowledge/{id}/upload-image/  (KnowledgeViewSet.upload_image)
UploadImage(id, hasFile) ==
    LET r == [op |-> "upload_image", id |-> id, file |-> hasFile]
    IN IF id \notin get_queryset
       THEN Answer(r, 404)
       ELSE IF ~hasFile
       THEN Answer(r, 400)
       ELSE /\ nextImg <= MaxImages
            /\ now < MaxTime
            /\ images' = Put(images, nextImg, [knowledge |-> id, created_at |-> now])
            /\ nextImg' = nextImg + 1
            /\ now' = now + 1
            /\ req' = r
            /\ resp' = [status |-> 201, id |-> nextImg]
            /\ UNCHANGED <<knowledge, nextKid, inflight>>

\* A delete_image that looks the image up in KnowledgeImage.objects instead
\* of knowledge.images
DeleteImage_any_owner(id, image_id) ==
    LET r == [op |-> "delete_image", id |-> id, image_id |-> image_id]
    IN IF id \notin get_queryset
       THEN Answer(r, 404)
       ELSE IF image_id \notin ImgIds
       THEN Answer(r, 404)
       ELSE /\ images' = Drop(images, image_id)
            /\ req' = r
            /\ resp' = [status |-> 204]
            /\ UNCHANGED <<knowledge, nextKid, nextImg, now, inflight>>

\* DELETE /knowledge/{id}/images/{image_id}/  (KnowledgeViewSet.delete_image)
DeleteImage(id, image_id) ==
    LET r == [op |-> "delete_image", id |-> id, image_id |-> image_id]
    IN IF id \notin get_queryset
       THEN Answer(r, 404)
       ELSE IF image_id \notin ImagesOf(id)
       THEN Answer(r, 404)
       ELSE /\ images' = Drop(images, image_id)
            /\ req' = r
            /\ resp' = [status |-> 204]
            /\ UNCHANGED <<knowledge, nextKid, nextImg, now, inflight>>

\* KnowledgeImage.Meta.ordering = ['created_at']: the images of a record,
\* oldest first (every upload reads the clock once, so created_at is unique)
RECURSIVE OrderedImages(_)
OrderedImages(imgs) ==
    IF imgs = {} THEN <<>>
    ELSE LET first == CHOOSE i \in imgs :
                          \A j \in imgs : images[i].created_at <= images[j].created_at
         IN <<first>> \o OrderedImages(imgs \ {first})

\* A KnowledgeSerializer whose images field reads KnowledgeImage.objects
\* instead of the record's own related manager
KnowledgeData_all_images(id) ==
    [id |-> id,
     user_id |-> knowledge[id].user_id,
     text |-> knowledge[id].text,
     quiz |-> knowledge[id].quiz,
     images |-> OrderedImages(ImgIds),
     created_at |-> knowledge[id].created_at,
     updated_at |-> knowledge[id].updated_at]

\* KnowledgeSerializer: fields id, user_id, text, quiz, images, created_at, updated_at
KnowledgeData(id) ==
    [id |-> id,
     user_id |-> knowledge[id].user_id,
     text |-> knowledge[id].text,
     quiz |-> knowledge[id].quiz,
     images |-> OrderedImages(ImagesOf(id)),
     created_at |-> knowledge[id].created_at,
     updated_at |-> knowledge[id].updated_at]

\* A retrieve that looks the row up in Knowledge.objects and does not catch
\* DoesNotExist
Retrieve_unhandled(id) ==
    /\ req' = [op |-> "retrieve", id |-> id]
    /\ resp' = IF id \in Kids
               THEN [status |-> 200, data |-> KnowledgeData(id)]
               ELSE [status |-> 500]
    /\ UNCHANGED <<knowledge, images, nextKid, nextImg, now, inflight>>

\* GET /knowledge/{id}/  (RetrieveModelMixin.retrieve)
Retrieve(id) ==
    /\ req' = [op |-> "retrieve", id |-> id]
    /\ resp' = IF id \in get_queryset
               THEN [status |-> 200, data |-> KnowledgeData(id)]
               ELSE [status |-> 404]
    /\ UNCHANGED <<knowledge, images, nextKid, nextImg, now, inflight>>

\* ListModelMixin.list: get_serializer(page, many=True).data in the paginated
\* response, one KnowledgeSerializer item per row of the page
Serialized(r) ==
    IF r.status = 200
    THEN r @@ [data |-> [i \in 1..Len(r.results) |-> KnowledgeData(r.results[i])]]
    ELSE r

\* GET /knowledge/?search=&page_size=&page=  (ListModelMixin.list)
List(q) ==
    /\ req' = [op |-> "list", query |-> q]
    /\ resp' \in { Serialized(r) : r \in ListResponses(q) }
    /\ UNCHANGED <<knowledge, images, nextKid, nextImg, now, inflight>>

\* Ids a client may put in a URL: those of rows that exist or could
RequestKids == 1..MaxRecords
RequestImgIds == 1..MaxImages

\* One request, its body drawn from creates / updates (<<partial, body>>)
\* and its list query from queries
Step(creates, updates, queries) ==
    \/ \E body \in creates : Create(body)
    \/ \E id \in RequestKids, u \in updates : Update(id, u[1], u[2])
    \/ \E id \in RequestKids : Destroy(id)
    \/ \E id \in RequestKids : Restore(id)
    \/ \E id \in RequestKids, hasFile \in BOOLEAN : UploadImage(id, hasFile)
    \/ \E id \in RequestKids, image_id \in RequestImgIds : DeleteImage(id, image_id)
    \/ \E id \in RequestKids : Retrieve(id)
    \/ \E q \in queries : List(q)

\* The record lifecycle: few bodies, every kind of request
CoreCreates ==
    { Body(<<(<<"a">>)>>, <<(<<"b", "a">>)>>, <<>>),
      Body(<<(<<"A", "b">>)>>, <<(<<"B">>)>>, <<JsonList(<<"q1">>)>>),
      Body(<<(<<"a">>)>>, <<(<<"B">>)>>, <<JsonOther("string")>>) }
CoreUpdates ==
    { <<TRUE, Body(<<>>, <<(<<"B">>)>>, <<>>)>>,
      <<FALSE, Body(<<>>, <<(<<"b", "a">>)>>, <<JsonList(<<>>)>>)>> }
CoreQueries ==
    { Query(<<>>, <<>>, <<>>),
      Query(<<(<<"a", "b">>)>>, <<>>, <<>>),
      Query(<<(<<"b", "A">>)>>, <<>>, <<>>),
      Query(<<>>, <<1>>, <<>>),
      Query(<<>>, <<>>, <<2>>) }

Next == Step(CoreCreates, CoreUpdates, CoreQueries)

Spec == Init /\ [][Next]_vars

\* Request validation: every JSON kind of quiz, absent and given fields, a
\* user_id in an update body, PATCH and PUT, against the default list query
InputCreates ==
    { Body(<<(<<"a">>)>>, <<(<<"b", "a">>)>>, q) : q \in Opt(QuizValues) }
    \cup { Body(<<>>, <<(<<"B">>)>>, <<>>), Body(<<(<<"a">>)>>, <<>>, <<JsonList(<<>>)>>) }
InputUpdates ==
    ({TRUE} \X ({ Body(<<>>, t, q) : t \in Opt({ <<"B">> }), q \in Opt(QuizValues) }
                \cup { Body(<<(<<"A", "b">>)>>, <<(<<"B">>)>>, <<>>) }))
    \cup ({FALSE} \X { Body(<<>>, <<(<<"B">>)>>, <<>>),
                       Body(<<>>, <<>>, <<JsonList(<<"q1">>)>>),
                       Body(<<>>, <<(<<"B">>)>>, <<JsonOther("string")>>),
                       Body(<<>>, <<(<<"B">>)>>, <<JsonOther("null")>>) })
InputQueries == { Query(<<>>, <<>>, <<>>) }

NextInput == Step(InputCreates, InputUpdates, InputQueries)

SpecInput == Init /\ [][NextInput]_vars

-----------------------------------------------------------------------------
(* Requests handled at the same time.  No view opens a transaction and       *)
(* settings.DATABASES sets no ATOMIC_REQUESTS, so every query is its own     *)
(* transaction: a handler reads its row with get_object() and writes it      *)
(* later, and other requests run in between.                                 *)

\* UpdateModelMixin.update up to serializer.is_valid: get_object() reads the row
BeginUpdate(w, id, partial, body) ==
    LET r == [op |-> "update", id |-> id, partial |-> partial, body |-> body]
    IN /\ inflight[w] = Idle
       /\ IF id \notin get_queryset
          THEN Answer(r, 404)
          ELSE IF ~UpdateValid(body, partial)
          THEN Answer(r, 400)
          ELSE /\ inflight' = [inflight EXCEPT ![w] = r @@ [instance |-> knowledge[id]]]
               /\ UNCHANGED <<knowledge, images, nextKid, nextImg, now, req, resp>>

\* An update that answers 409 and writes nothing when the row is no longer
\* the one it read
FinishUpdate_if_unchanged(w) ==
    LET f == inflight[w]
    IN /\ f.op = "update"
       /\ now < MaxTime
       /\ inflight' = [inflight EXCEPT ![w] = Idle]
       /\ req' = f @@ [found |-> knowledge[f.id]]
       /\ IF knowledge[f.id] = f.instance
          THEN /\ knowledge' = [knowledge EXCEPT ![f.id] = UpdatedRow(f.instance, f.body)]
               /\ now' = now + 1
               /\ resp' = [status |-> 200, id |-> f.id]
          ELSE /\ resp' = [status |-> 409]
               /\ UNCHANGED <<knowledge, now>>
       /\ UNCHANGED <<images, nextKid, nextImg>>

\* UpdateModelMixin.perform_update: serializer.save() sets the validated
\* fields on the instance read earlier and calls instance.save() without
\* update_fields, which writes every column of the row from that instance
FinishUpdate(w) ==
    LET f == inflight[w]
    IN /\ f.op = "update"
       /\ now < MaxTime
       /\ knowledge' = [knowledge EXCEPT ![f.id] = UpdatedRow(f.instance, f.body)]
       /\ now' = now + 1
       /\ inflight' = [inflight EXCEPT ![w] = Idle]
       /\ req' = f @@ [found |-> knowledge[f.id]]
       /\ resp' = [status |-> 200, id |-> f.id]
       /\ UNCHANGED <<images, nextKid, nextImg>>

\* DestroyModelMixin.destroy up to perform_destroy: get_object() reads the row
BeginDestroy(w, id) ==
    LET r == [op |-> "destroy", id |-> id]
    IN /\ inflight[w] = Idle
       /\ IF id \notin get_queryset
          THEN Answer(r, 404)
          ELSE /\ inflight' = [inflight EXCEPT ![w] = r @@ [instance |-> knowledge[id]]]
               /\ UNCHANGED <<knowledge, images, nextKid, nextImg, now, req, resp>>

\* A soft_delete that calls save() without update_fields: every column is
\* written from the instance read earlier, and auto_now sets updated_at
FinishDestroy_full_save(w) ==
    LET f == inflight[w]
    IN /\ f.op = "destroy"
       /\ now < MaxTime
       /\ knowledge' = [knowledge EXCEPT
                           ![f.id] = [f.instance EXCEPT !.deleted_at = now, !.updated_at = now]]
       /\ now' = now + 1
       /\ inflight' = [inflight EXCEPT ![w] = Idle]
       /\ req' = f @@ [found |-> knowledge[f.id]]
       /\ resp' = [status |-> 204]
       /\ UNCHANGED <<images, nextKid, nextImg>>

\* perform_destroy: instance.soft_delete(), i.e. save(update_fields=['deleted_at'])
FinishDestroy(w) ==
    LET f == inflight[w]
    IN /\ f.op = "destroy"
       /\ now < MaxTime
       /\ knowledge' = [knowledge EXCEPT ![f.id].deleted_at = now]
       /\ now' = now + 1
       /\ inflight' = [inflight EXCEPT ![w] = Idle]
       /\ req' = f @@ [found |-> knowledge[f.id]]
       /\ resp' = [status |-> 204]
       /\ UNCHANGED <<images, nextKid, nextImg>>

\* KnowledgeViewSet.restore up to the deleted_at check: Knowledge.objects.get
\* reads the row
BeginRestore(w, id) ==
    LET r == [op |-> "restore", id |-> id]
    IN /\ inflight[w] = Idle
       /\ IF id \notin Kids
          THEN Answer(r, 404)
          ELSE IF knowledge[id].deleted_at = None
          THEN Answer(r, 400)
          ELSE /\ inflight' = [inflight EXCEPT ![w] = r @@ [instance |-> knowledge[id]]]
               /\ UNCHANGED <<knowledge, images, nextKid, nextImg, now, req, resp>>

\* KnowledgeViewSet.restore from knowledge.restore() on: deleted_at = None,
\* save(update_fields=['deleted_at']), answer 200
FinishRestore(w) ==
    LET f == inflight[w]
    IN /\ f.op = "restore"
       /\ knowledge' = [knowledge EXCEPT ![f.id].deleted_at = None]
       /\ inflight' = [inflight EXCEPT ![w] = Idle]
       /\ req' = f @@ [found |-> knowledge[f.id]]
       /\ resp' = [status |-> 200, id |-> f.id]
       /\ UNCHANGED <<images, nextKid, nextImg, now>>

\* KnowledgeViewSet.upload_image up to the file check: get_object() reads the row
BeginUploadImage(w, id, hasFile) ==
    LET r == [op |-> "upload_image", id |-> id, file |-> hasFile]
    IN /\ inflight[w] = Idle
       /\ IF id \notin get_queryset
          THEN Answer(r, 404)
          ELSE IF ~hasFile
          THEN Answer(r, 400)
          ELSE /\ inflight' = [inflight EXCEPT ![w] = r @@ [instance |-> knowledge[id]]]
               /\ UNCHANGED <<knowledge, images, nextKid, nextImg, now, req, resp>>

\* KnowledgeViewSet.upload_image: KnowledgeImage.objects.create(knowledge=knowledge, ...)
\* with the instance read earlier
FinishUploadImage(w) ==
    LET f == inflight[w]
    IN /\ f.op = "upload_image"
       /\ nextImg <= MaxImages
       /\ now < MaxTime
       /\ images' = Put(images, nextImg, [knowledge |-> f.id, created_at |-> now])
       /\ nextImg' = nextImg + 1
       /\ now' = now + 1
       /\ inflight' = [inflight EXCEPT ![w] = Idle]
       /\ req' = f @@ [found |-> knowledge[f.id]]
       /\ resp' = [status |-> 201, id |-> nextImg]
       /\ UNCHANGED <<knowledge, nextKid>>

\* One record, PATCHes that give different texts or only a quiz
ConcCreates == { Body(<<(<<"a">>)>>, <<(<<"b", "a">>)>>, <<>>) }
ConcUpdates ==
    { <<TRUE, Body(<<>>, <<(<<"B">>)>>, <<>>)>>,
      <<TRUE, Body(<<>>, <<(<<"a">>)>>, <<>>)>>,
      <<TRUE, Body(<<>>, <<>>, <<JsonList(<<"q1">>)>>)>>,
      <<TRUE, Body(<<>>, <<>>, <<JsonOther("string")>>)>> }

NextConc ==
    \/ \E body \in ConcCreates : Create(body)
    \/ \E w \in Workers, id \in RequestKids, u \in ConcUpdates : BeginUpdate(w, id, u[1], u[2])
    \/ \E w \in Workers : FinishUpdate(w)
    \/ \E w \in Workers, id \in RequestKids : BeginDestroy(w, id)
    \/ \E w \in Workers : FinishDestroy(w)
    \/ \E id \in RequestKids : Restore(id)
    \/ \E q \in { Query(<<>>, <<>>, <<>>) } : List(q)

SpecConc == Init /\ [][NextConc]_vars

\* The same, with restore and upload_image also in two steps
OverlapUpdates ==
    { <<TRUE, Body(<<>>, <<(<<"B">>)>>, <<>>)>>,
      <<TRUE, Body(<<>>, <<>>, <<JsonOther("string")>>)>> }

NextOverlap ==
    \/ \E body \in ConcCreates : Create(body)
    \/ \E w \in Workers, id \in RequestKids, u \in OverlapUpdates : BeginUpdate(w, id, u[1], u[2])
    \/ \E w \in Workers : FinishUpdate(w)
    \/ \E w \in Workers, id \in RequestKids : BeginDestroy(w, id)
    \/ \E w \in Workers : FinishDestroy(w)
    \/ \E w \in Workers, id \in RequestKids : BeginRestore(w, id)
    \/ \E w \in Workers : FinishRestore(w)
    \/ \E w \in Workers, id \in RequestKids, hasFile \in BOOLEAN : BeginUploadImage(w, id, hasFile)
    \/ \E w \in Workers : FinishUploadImage(w)
    \/ \E id \in RequestKids, image_id \in RequestImgIds : DeleteImage(id, image_id)
    \/ \E id \in RequestKids : Retrieve(id)
    \/ \E q \in { Query(<<>>, <<>>, <<>>) } : List(q)

SpecOverlap == Init /\ [][NextOverlap]_vars

-----------------------------------------------------------------------------
(* urls.py: the router passes the path segments pk and image_id to the view  *)
(* as strings (any run of characters other than '/' and '.'); the ORM turns  *)
(* them into integers when it builds the query.                              *)

DigitValue(c) ==
    CASE c = "0" -> 0
      [] c = "1" -> 1
      [] c = "2" -> 2
      [] c = "3" -> 3
      [] OTHER -> -1

\* int(s) succeeds: s is a non-empty run of digits
IsInteger(s) == s # <<>> /\ \A i \in 1..Len(s) : DigitValue(s[i]) >= 0

\* int(s), for s with IsInteger(s)
RECURSIVE ToInteger(_)
ToInteger(s) ==
    IF s = <<>> THEN 0
    ELSE 10 * ToInteger(SubSeq(s, 1, Len(s) - 1)) + DigitValue(s[Len(s)])

\* Path segments a client may send
UrlSegments == { <<"1">>, <<"2">>, <<"3">>, <<"0", "1">>, <<"a">>, <<"1", "a">> }

\* GenericAPIView.get_object: get_object_or_404 answers 404 for DoesNotExist
\* and also for the ValueError of a pk that is not an integer
RetrieveUrl(pk) ==
    IF IsInteger(pk) THEN Retrieve(ToInteger(pk))
    ELSE Answer([op |-> "retrieve", pk |-> pk], 404)

DestroyUrl(pk) ==
    IF IsInteger(pk) THEN Destroy(ToInteger(pk))
    ELSE Answer([op |-> "destroy", pk |-> pk], 404)

\* KnowledgeViewSet.restore: Knowledge.objects.get(pk=pk) raises ValueError
\* for a pk that is not an integer; the view catches DoesNotExist only, and
\* the uncaught exception is answered 500
RestoreUrl(pk) ==
    IF IsInteger(pk) THEN Restore(ToInteger(pk))
    ELSE Answer([op |-> "restore", pk |-> pk], 500)

\* KnowledgeViewSet.delete_image: get_object() first (404), then
\* knowledge.images.get(id=image_id), which raises ValueError for an
\* image_id that is not an integer; the view catches DoesNotExist only
DeleteImageUrl(pk, image_id) ==
    LET r == [op |-> "delete_image", pk |-> pk, image_id |-> image_id]
    IN IF ~IsInteger(pk) THEN Answer(r, 404)
       ELSE IF IsInteger(image_id) THEN DeleteImage(ToInteger(pk), ToInteger(image_id))
       ELSE IF ToInteger(pk) \notin get_queryset THEN Answer(r, 404)
       ELSE Answer(r, 500)

NextUrl ==
    \/ \E body \in ConcCreates : Create(body)
    \/ \E id \in RequestKids : UploadImage(id, TRUE)
    \/ \E pk \in UrlSegments : RetrieveUrl(pk)
    \/ \E pk \in UrlSegments : DestroyUrl(pk)
    \/ \E pk \in UrlSegments : RestoreUrl(pk)
    \/ \E pk \in UrlSegments, image_id \in UrlSegments : DeleteImageUrl(pk, image_id)

SpecUrl == Init /\ [][NextUrl]_vars

-----------------------------------------------------------------------------
(* admin.py: the admin site (knowledge_base/urls.py: path('admin/')).  The   *)
(* admin works on Knowledge.objects, so it reaches soft-deleted rows too.    *)

\* A delete of a Knowledge row whose images are left behind (on_delete=DO_NOTHING)
AdminDeleteKnowledge_no_cascade(id) ==
    LET r == [op |-> "admin_delete_knowledge", id |-> id]
    IN IF id \notin Kids
       THEN Answer(r, 302)
       ELSE /\ knowledge' = Drop(knowledge, id)
            /\ req' = r
            /\ resp' = [status |-> 302, deleted |-> {}]
            /\ UNCHANGED <<images, nextKid, nextImg, now, inflight>>

\* KnowledgeAdmin delete view: obj.delete(), which removes the row and, by
\* on_delete=CASCADE, the KnowledgeImage rows that reference it
AdminDeleteKnowledge(id) ==
    LET r == [op |-> "admin_delete_knowledge", id |-> id]
    IN IF id \notin Kids
       THEN Answer(r, 302)
       ELSE /\ knowledge' = Drop(knowledge, id)
            /\ images' = [i \in ImgIds \ ImagesOf(id) |-> images[i]]
            /\ req' = r
            /\ resp' = [status |-> 302, deleted |-> ImagesOf(id)]
            /\ UNCHANGED <<nextKid, nextImg, now, inflight>>

\* KnowledgeImageAdmin change view: the form holds the fields knowledge and
\* image (created_at is read-only); knowledge must name a stored row
AdminChangeImage(image_id, owner) ==
    LET r == [op |-> "admin_change_image", image_id |-> image_id, knowledge |-> owner]
    IN IF image_id \notin ImgIds
       THEN Answer(r, 302)
       ELSE IF owner \notin Kids
       THEN Answer(r, 200)
       ELSE /\ images' = [images EXCEPT ![image_id].knowledge = owner]
            /\ req' = r
            /\ resp' = [status |-> 302]
            /\ UNCHANGED <<knowledge, nextKid, nextImg, now, inflight>>

\* KnowledgeImageAdmin delete view
AdminDeleteImage(image_id) ==
    LET r == [op |-> "admin_delete_image", image_id |-> image_id]
    IN IF image_id \notin ImgIds
       THEN Answer(r, 302)
       ELSE /\ images' = Drop(images, image_id)
            /\ req' = r
            /\ resp' = [status |-> 302]
            /\ UNCHANGED <<knowledge, nextKid, nextImg, now, inflight>>

AdminRequests ==
    { "admin_delete_knowledge", "admin_change_image", "admin_delete_image" }

\* The store after n creates and then m uploads, one per clock tick, each
\* upload on one of the n records
InitAdmin ==
    \E n \in 0..MaxRecords, m \in 0..MaxAdminImages :
      \E owner \in [1..m -> 1..n] :
        /\ knowledge = [id \in 1..n |->
                          [user_id |-> <<"a">>, text |-> <<"B">>, quiz |-> <<>>,
                           created_at |-> id, updated_at |-> id, deleted_at |-> None]]
        /\ images = [i \in 1..m |-> [knowledge |-> owner[i], created_at |-> n + i]]
        /\ nextKid = n + 1
        /\ nextImg = m + 1
        /\ now = n + m + 1
        /\ req = [op |-> "none"]
        /\ resp = [status |-> 0]
        /\ inflight = NoneInFlight

AdminImgIds == 1..MaxAdminImages

NextAdmin ==
    \/ Step({ Body(<<(<<"a">>)>>, <<(<<"B">>)>>, <<>>) },
            { <<TRUE, Body(<<>>, <<(<<"b", "a">>)>>, <<>>)>> },
            { Query(<<>>, <<>>, <<>>) })
    \/ \E id \in RequestKids : AdminDeleteKnowledge(id)
    \/ \E image_id \in AdminImgIds, owner \in RequestKids : AdminChangeImage(image_id, owner)
    \/ \E image_id \in AdminImgIds : AdminDeleteImage(image_id)

SpecAdmin == InitAdmin /\ [][NextAdmin]_vars

\* Filtering and ordering of the list: the lifecycle requests against list
\* queries that give one filter, two filters, or an ordering term
WithFilters(f) == [Query(<<>>, <<>>, <<>>) EXCEPT !.filters = f]
WithOrdering(term) == [Query(<<>>, <<>>, <<>>) EXCEPT !.ordering = <<term>>]
FilterQueries ==
    { WithFilters([NoFilters EXCEPT !.user_id = <<(<<"a">>)>>]),
      WithFilters([NoFilters EXCEPT !.text__icontains = <<(<<"A">>)>>]),
      WithFilters([NoFilters EXCEPT !.created_at__gte = <<2>>]),
      WithFilters([NoFilters EXCEPT !.created_at__lte = <<1>>]),
      WithFilters([NoFilters EXCEPT !.updated_at__gte = <<3>>]),
      WithFilters([NoFilters EXCEPT !.updated_at__lte = <<2>>]),
      WithFilters([NoFilters EXCEPT !.user_id = <<(<<"A", "b">>)>>, !.created_at__gte = <<2>>]) }
OrderQueries ==
    { WithOrdering(t) :
        t \in { "created_at", "-created_at", "updated_at", "-updated_at",
                "user_id", "-user_id", "text" } }

NextQuery == Step(CoreCreates, CoreUpdates, {Query(<<>>, <<>>, <<>>)} \cup FilterQueries \cup OrderQueries)

SpecQuery == Init /\ [][NextQuery]_vars

\* Pagination: a store that n creates have filled, one per clock tick, and in
\* which the first record of page 1 and of page 2 may have been soft-deleted;
\* it is listed page by page and the soft-deleted records are restored
PageDeletable == { 1, PAGE_SIZE + 1 }
PageQueries == { Query(<<>>, <<>>, p) : p \in Opt(0..3) }

InitPage ==
    \E n \in 0..MaxPageRecords, deleted \in SUBSET PageDeletable :
        /\ deleted \subseteq 1..n
        /\ knowledge = [id \in 1..n |->
                          [user_id |-> <<"a">>, text |-> <<"B">>, quiz |-> <<>>,
                           created_at |-> id, updated_at |-> id,
                           deleted_at |-> IF id \in deleted THEN n + 1 ELSE None]]
        /\ images = << >>
        /\ nextKid = n + 1
        /\ nextImg = 1
        /\ now = n + 2
        /\ req = [op |-> "none"]
        /\ resp = [status |-> 0]
        /\ inflight = NoneInFlight

NextPage ==
    \/ \E q \in PageQueries : List(q)
    \/ \E id \in PageDeletable : Restore(id)

SpecPage == InitPage /\ [][NextPage]_vars

-----------------------------------------------------------------------------
(* Vocabulary of the properties *)

\* A stored record is active iff its deleted_at is null
IsActive(id) == id \in Kids /\ ~is_deleted(knowledge[id])
IsSoftDeleted(id) == id \in Kids /\ is_deleted(knowledge[id])

\* The ids in the results of a list response
Listed(r) == { r.results[i] : i \in 1..Len(r.results) }

\* GET /knowledge/ with no parameters
DefaultQuery == Query(<<>>, <<>>, <<>>)

\* The images of record id, with their rows
ImageRows(id) == { <<i, images[i]>> : i \in ImagesOf(id) }

StoreUnchanged == knowledge' = knowledge /\ images' = images

-----------------------------------------------------------------------------
(* C1: every list response holds only records whose deleted_at is null, and  *)
(* a soft-deleted record becomes active again (and so listable) only by a    *)
(* restore request on it that returned 200.                                  *)
C1_ListOnlyActive ==
    [][/\ (req'.op = "list" /\ resp'.status = 200) =>
              \A id \in Listed(resp') : id \in Kids' /\ knowledge'[id].deleted_at = None
       /\ \A id \in Kids :
              (is_deleted(knowledge[id]) /\ id \in Kids' /\ ~is_deleted(knowledge'[id])) =>
                  (req'.op = "restore" /\ req'.id = id /\ resp'.status = 200)
      ]_vars

\* A list answered while one record is soft-deleted and another is listed
C1_Witness ==
    /\ req.op = "list"
    /\ resp.status = 200
    /\ Listed(resp) # {}
    /\ \E id \in Kids : is_deleted(knowledge[id]) /\ id \notin Listed(resp)

(* C2: soft delete then restore is a round trip.  A DELETE on an active      *)
(* record only sets deleted_at and takes the record out of the list; while   *)
(* it is soft-deleted its fields and images do not change; a restore on it   *)
(* returns 200, clears deleted_at, changes nothing else and puts the record  *)
(* back in the list.                                                         *)
C2_DeleteRestoreRoundTrip ==
    [][/\ \A id \in Kids :
            (req'.op = "destroy" /\ req'.id = id /\ ~is_deleted(knowledge[id])) =>
                /\ knowledge' = [knowledge EXCEPT ![id].deleted_at = now]
                /\ images' = images
                /\ \A r \in ListResponses(DefaultQuery)' : id \notin Listed(r)
       /\ \A id \in Kids :
            (is_deleted(knowledge[id]) /\ ~(req'.op = "restore" /\ req'.id = id)) =>
                /\ id \in Kids'
                /\ knowledge'[id] = knowledge[id]
                /\ ImageRows(id)' = ImageRows(id)
       /\ \A id \in Kids :
            (req'.op = "restore" /\ req'.id = id /\ is_deleted(knowledge[id])) =>
                /\ resp'.status = 200
                /\ knowledge' = [knowledge EXCEPT ![id].deleted_at = None]
                /\ images' = images
                /\ \A r \in ListResponses(DefaultQuery)' : id \in Listed(r)
      ]_vars

\* A restore has succeeded on a record that holds an image
C2_Witness ==
    /\ req.op = "restore"
    /\ resp.status = 200
    /\ ImagesOf(req.id) # {}
    /\ knowledge[req.id].deleted_at = None
    /\ \A r \in ListResponses(DefaultQuery) : req.id \in Listed(r)

(* C3: a restore on an existing record whose deleted_at is null returns 400  *)
(* and leaves every record and image unchanged.                              *)
C3_RestoreActiveIs400 ==
    [][(req'.op = "restore" /\ IsActive(req'.id)) =>
           (resp'.status = 400 /\ StoreUnchanged)]_vars

\* A restore on an active record has been answered
C3_Witness ==
    /\ req.op = "restore"
    /\ IsActive(req.id)
    /\ resp.status = 400

(* C4: a DELETE on an active record returns 204 and leaves the record in     *)
(* the store with a non-null deleted_at; no request removes a Knowledge      *)
(* record.                                                                   *)
C4_DeleteIsSoft ==
    [][/\ (req'.op = "destroy" /\ IsActive(req'.id)) =>
              /\ resp'.status = 204
              /\ req'.id \in Kids'
              /\ knowledge'[req'.id].deleted_at # None
       /\ Kids \subseteq Kids'
      ]_vars

\* A DELETE has returned 204 and its record is stored, soft-deleted
C4_Witness ==
    /\ req.op = "destroy"
    /\ resp.status = 204
    /\ IsSoftDeleted(req.id)

(* C5 as stated: a DELETE on an already soft-deleted record succeeds again   *)
(* and sets deleted_at to the new current time.                              *)
C5_SecondDeleteUpdatesTimestamp ==
    [][(req'.op = "destroy" /\ IsSoftDeleted(req'.id)) =>
           (resp'.status = 204 /\ knowledge'[req'.id].deleted_at = now)]_vars

(* C5 amended: a DELETE on an already soft-deleted record returns 404 and    *)
(* leaves its deleted_at, and the whole store, unchanged.                    *)
C5_SecondDeleteIs404 ==
    [][(req'.op = "destroy" /\ IsSoftDeleted(req'.id)) =>
           (resp'.status = 404 /\ StoreUnchanged)]_vars

\* A second DELETE on a soft-deleted record has been answered
C5_Witness ==
    /\ req.op = "destroy"
    /\ resp.status = 404
    /\ IsSoftDeleted(req.id)

(* C6: a create, or an update of an active record, whose quiz is given and   *)
(* is not a list (a string, number, boolean, object or null) returns 400 and *)
(* leaves the store unchanged: no record is created, no field is modified.   *)
C6_QuizMustBeList ==
    [][(/\ req'.op \in {"create", "update"}
        /\ Given(req'.body.quiz)
        /\ req'.body.quiz[1].kind # "list"
        /\ (req'.op = "update" => IsActive(req'.id))) =>
           (resp'.status = 400 /\ StoreUnchanged /\ nextKid' = nextKid)]_vars

\* An update of an active record with a quiz that is not a list was answered
C6_Witness ==
    /\ req.op = "update"
    /\ IsActive(req.id)
    /\ Given(req.body.quiz)
    /\ req.body.quiz[1].kind = "object"
    /\ resp.status = 400

(* C7: a PATCH or PUT whose id names no stored record, or a soft-deleted     *)
(* record, returns 404 and changes no record and no image.                   *)
C7_UpdateMissingIs404 ==
    [][(req'.op = "update" /\ ~IsActive(req'.id)) =>
           (resp'.status = 404 /\ StoreUnchanged)]_vars

\* A valid update of a soft-deleted record was answered
C7_Witness ==
    /\ req.op = "update"
    /\ IsSoftDeleted(req.id)
    /\ UpdateValid(req.body, req.partial)
    /\ resp.status = 404

(* C8: a successful update changes only its record, never its user_id,       *)
(* created_at, deleted_at or images; after a successful PATCH, text and quiz *)
(* hold the value given in the body, or the stored value when the body does  *)
(* not give the field.                                                       *)
C8_PatchOnlyProvidedFields ==
    [][(req'.op = "update" /\ resp'.status = 200) =>
           LET id == req'.id
               body == req'.body
               old == knowledge[id]
               new == knowledge'[id]
           IN /\ Kids' = Kids
              /\ \A k \in Kids \ {id} : knowledge'[k] = knowledge[k]
              /\ images' = images
              /\ new.user_id = old.user_id
              /\ new.created_at = old.created_at
              /\ new.deleted_at = old.deleted_at
              /\ req'.partial =>
                    /\ new.text = IF Given(body.text) THEN body.text[1] ELSE old.text
                    /\ new.quiz = IF Given(body.quiz) THEN body.quiz[1].items ELSE old.quiz
      ]_vars

\* A PATCH giving text and another user_id, but no quiz, has succeeded on a
\* record with a non-empty quiz
C8_Witness ==
    /\ req.op = "update"
    /\ req.partial
    /\ resp.status = 200
    /\ Given(req.body.user_id)
    /\ req.body.user_id[1] # knowledge[req.id].user_id
    /\ ~Given(req.body.quiz)
    /\ knowledge[req.id].quiz = <<"q1">>
    /\ Given(req.body.text)
    /\ knowledge[req.id].text = req.body.text[1]

(* C9 as stated: GET /knowledge/?search=s returns exactly the active records *)
(* whose user_id or text contains s, ignoring case.                          *)
C9_SearchReturnsMatches ==
    (req.op = "list" /\ Given(req.query.search) /\ resp.status = 200) =>
        Listed(resp) =
            { id \in Kids :
                /\ ~is_deleted(knowledge[id])
                /\ \/ IContains(knowledge[id].user_id, req.query.search[1])
                   \/ IContains(knowledge[id].text, req.query.search[1]) }

(* C10 as stated: a list response holds min(n, 100, remaining records)       *)
(* results when page_size=n is given, and min(20, remaining) when it is not. *)
C10_PageSizePerRequest ==
    (req.op = "list" /\ resp.status = 200) =>
        LET size == IF Given(req.query.page_size)
                    THEN Min(req.query.page_size[1], MAX_PAGE_SIZE)
                    ELSE PAGE_SIZE
            page == IF Given(req.query.page) THEN req.query.page[1] ELSE 1
            remaining == resp.count - (page - 1) * size
        IN Len(resp.results) = Min(size, remaining)

(* C12: a list response holds exactly the active records that satisfy every  *)
(* filter supplied: user_id by equality, text__icontains by case-insensitive *)
(* substring of text, created_at and updated_at by inclusive bounds; records *)
(* failing a supplied filter and soft-deleted records are left out.          *)
C12_FiltersSelectExactly ==
    (req.op = "list" /\ resp.status = 200) =>
        LET f == req.query.filters
        IN /\ Listed(resp) =
                { id \in Kids :
                    /\ knowledge[id].deleted_at = None
                    /\ Given(f.user_id) => knowledge[id].user_id = f.user_id[1]
                    /\ Given(f.text__icontains) =>
                           Contains(LowerStr(knowledge[id].text), LowerStr(f.text__icontains[1]))
                    /\ Given(f.created_at__gte) => knowledge[id].created_at >= f.created_at__gte[1]
                    /\ Given(f.created_at__lte) => knowledge[id].created_at <= f.created_at__lte[1]
                    /\ Given(f.updated_at__gte) => knowledge[id].updated_at >= f.updated_at__gte[1]
                    /\ Given(f.updated_at__lte) => knowledge[id].updated_at <= f.updated_at__lte[1] }
           /\ resp.count = Cardinality(Listed(resp))

\* A list filtered by user_id has returned one record and left out an
\* active record whose user_id only contains the value
C12_Witness ==
    /\ req.op = "list"
    /\ resp.status = 200
    /\ Given(req.query.filters.user_id)
    /\ Listed(resp) # {}
    /\ \E id \in Kids \ Listed(resp) :
           /\ knowledge[id].deleted_at = None
           /\ knowledge[id].user_id # req.query.filters.user_id[1]
           /\ IContains(knowledge[id].user_id, req.query.filters.user_id[1])

(* C13: the results of a list are sorted by created_at, newest first, when   *)
(* no ordering parameter is given; by created_at, updated_at or user_id      *)
(* ascending when ordering names that field, and descending when it names    *)
(* the field with a leading '-'.                                             *)
C13_ResultsOrdered ==
    (req.op = "list" /\ resp.status = 200) =>
        LET o == req.query.ordering
            term == IF Given(o) THEN o[1] ELSE "-created_at"
            rows == resp.results
            Sorted(Leq(_, _)) ==
                \A i, j \in 1..Len(rows) : i < j => Leq(knowledge[rows[i]], knowledge[rows[j]])
            ByCreated(x, y) == x.created_at <= y.created_at
            ByUpdated(x, y) == x.updated_at <= y.updated_at
            ByUser(x, y) == StrLeq(x.user_id, y.user_id)
            Rev(Leq(_, _), x, y) == Leq(y, x)
            CreatedDesc(x, y) == Rev(ByCreated, x, y)
            UpdatedDesc(x, y) == Rev(ByUpdated, x, y)
            UserDesc(x, y) == Rev(ByUser, x, y)
        IN /\ term = "created_at" => Sorted(ByCreated)
           /\ term = "-created_at" => Sorted(CreatedDesc)
           /\ term = "updated_at" => Sorted(ByUpdated)
           /\ term = "-updated_at" => Sorted(UpdatedDesc)
           /\ term = "user_id" => Sorted(ByUser)
           /\ term = "-user_id" => Sorted(UserDesc)

\* A list ordered by user_id has returned two records in the order opposite
\* to the default one: the older record first
C13_Witness ==
    /\ req.op = "list"
    /\ resp.status = 200
    /\ req.query.ordering = <<"user_id">>
    /\ Len(resp.results) = 2
    /\ knowledge[resp.results[1]].user_id # knowledge[resp.results[2]].user_id
    /\ knowledge[resp.results[1]].created_at < knowledge[resp.results[2]].created_at

\* The results met when walking the next links from page p in the current store
RECURSIVE WalkFrom(_)
WalkFrom(p) ==
    LET r == CHOOSE r \in ListResponses(Query(<<>>, <<>>, <<p>>)) : TRUE
    IN IF r.status # 200 THEN <<>>
       ELSE r.results \o (IF Given(r.next) THEN WalkFrom(r.next[1]) ELSE <<>>)

(* C11: with no page_size given, a list over N active records answers with  *)
(* count = N and at most 20 results; next is non-null iff records remain     *)
(* after the page returned, previous is null on the first page, and walking  *)
(* the next links from the first page meets every active record exactly once.*)
C11_PaginationWalk ==
    (req.op = "list" /\ ~Given(req.query.page_size) /\ resp.status = 200) =>
        LET active == { id \in Kids : knowledge[id].deleted_at = None }
            N == Cardinality(active)
            page == IF Given(req.query.page) THEN req.query.page[1] ELSE 1
            walk == resp.results \o (IF Given(resp.next) THEN WalkFrom(resp.next[1]) ELSE <<>>)
        IN /\ resp.count = N
           /\ Len(resp.results) <= 20
           /\ Given(resp.next) <=> page * 20 < N
           /\ page = 1 => resp.previous = <<>>
           /\ page = 1 =>
                 /\ { walk[i] : i \in 1..Len(walk) } = active
                 /\ Len(walk) = N

\* The second page of more than 40 active records has been returned, full,
\* with both links, while a soft-deleted record is stored
C11_Witness ==
    /\ req.op = "list"
    /\ req.query.page = <<2>>
    /\ resp.status = 200
    /\ resp.count > 40
    /\ Len(resp.results) = 20
    /\ Given(resp.next)
    /\ Given(resp.previous)
    /\ \E id \in Kids : is_deleted(knowledge[id])

(* C14: a create that gives user_id, text and a list or no quiz returns 201  *)
(* and adds exactly one record, under an id no stored record has, active,    *)
(* with the given user_id and text and the given quiz (the empty list when   *)
(* quiz is omitted); every stored record and image is unchanged.  A create   *)
(* without user_id or without text returns 400 and adds no record.           *)
C14_CreateAddsOneActiveRecord ==
    [][req'.op = "create" =>
         LET body == req'.body
         IN /\ (/\ Given(body.user_id)
                 /\ Given(body.text)
                 /\ (Given(body.quiz) => body.quiz[1].kind = "list")) =>
                  /\ resp'.status = 201
                  /\ \E new \in Kids' \ Kids :
                        /\ Kids' = Kids \cup {new}
                        /\ resp'.id = new
                        /\ knowledge'[new].deleted_at = None
                        /\ knowledge'[new].user_id = body.user_id[1]
                        /\ knowledge'[new].text = body.text[1]
                        /\ knowledge'[new].quiz =
                              IF Given(body.quiz) THEN body.quiz[1].items ELSE <<>>
                  /\ \A id \in Kids : knowledge'[id] = knowledge[id]
                  /\ images' = images
            /\ (~Given(body.user_id) \/ ~Given(body.text)) =>
                  (resp'.status = 400 /\ StoreUnchanged)
      ]_vars

\* A create with a non-empty quiz has succeeded next to an older record
C14_Witness ==
    /\ req.op = "create"
    /\ resp.status = 201
    /\ req.body.quiz = <<JsonList(<<"q1">>)>>
    /\ knowledge[resp.id].quiz = <<"q1">>
    /\ Kids \ {resp.id} # {}

(* C15: an upload-image on an id that names no stored record returns 404,    *)
(* and on an active record without an image file returns 400; neither        *)
(* creates an image.  On an active record with a file it returns 201 and     *)
(* adds exactly one image, owned by that record.                             *)
C15_UploadImage ==
    [][req'.op = "upload_image" =>
         LET id == req'.id
         IN /\ id \notin Kids => (resp'.status = 404 /\ StoreUnchanged)
            /\ (IsActive(id) /\ ~req'.file) => (resp'.status = 400 /\ StoreUnchanged)
            /\ (IsActive(id) /\ req'.file) =>
                  /\ resp'.status = 201
                  /\ \E new \in ImgIds' \ ImgIds :
                        /\ ImgIds' = ImgIds \cup {new}
                        /\ images'[new].knowledge = id
                  /\ \A i \in ImgIds : images'[i] = images[i]
                  /\ knowledge' = knowledge
      ]_vars

\* An upload without a file was refused on an active record that has no image
C15_Witness ==
    /\ req.op = "upload_image"
    /\ ~req.file
    /\ IsActive(req.id)
    /\ resp.status = 400
    /\ ImagesOf(req.id) = {}

(* C16 as stated: a delete-image returns 404 and deletes nothing when        *)
(* image_id is not an image of knowledge id, and whenever it is an image of  *)
(* that knowledge it returns 204 and removes exactly that image.             *)
C16_ImageOfKnowledgeIsRemoved ==
    [][req'.op = "delete_image" =>
         IF req'.image_id \in ImgIds /\ images[req'.image_id].knowledge = req'.id
         THEN /\ resp'.status = 204
              /\ ImgIds' = ImgIds \ {req'.image_id}
              /\ \A i \in ImgIds' : images'[i] = images[i]
              /\ knowledge' = knowledge
         ELSE resp'.status = 404 /\ StoreUnchanged
      ]_vars

(* C16 amended: a delete-image returns 204 and removes exactly the image     *)
(* image_id, leaving the other images and every Knowledge record unchanged,  *)
(* when knowledge id is active and the image is one of its images.  In every *)
(* other case (the image is not stored, it belongs to another knowledge, or  *)
(* knowledge id is soft-deleted or not stored) it returns 404 and deletes    *)
(* nothing.                                                                  *)
C16_DeleteImage ==
    [][req'.op = "delete_image" =>
         IF /\ IsActive(req'.id)
            /\ req'.image_id \in ImgIds
            /\ images[req'.image_id].knowledge = req'.id
         THEN /\ resp'.status = 204
              /\ ImgIds' = ImgIds \ {req'.image_id}
              /\ \A i \in ImgIds' : images'[i] = images[i]
              /\ knowledge' = knowledge
         ELSE resp'.status = 404 /\ StoreUnchanged
      ]_vars

\* A delete-image was refused for an image of the soft-deleted record it names
C16_Witness ==
    /\ req.op = "delete_image"
    /\ IsSoftDeleted(req.id)
    /\ req.image_id \in ImagesOf(req.id)
    /\ resp.status = 404

(* C19: a restore whose integer id names no stored record, active or         *)
(* soft-deleted, returns 404 and changes no record and no image; a retrieve  *)
(* with such an id returns 404.                                              *)
C19_MissingRecordIs404 ==
    [][(req'.op \in {"restore", "retrieve"} /\ req'.id \notin Kids) =>
           (resp'.status = 404 /\ StoreUnchanged)]_vars

\* A restore was answered 404 for an id that is not stored, while another
\* record is stored and soft-deleted
C19_Witness ==
    /\ req.op = "restore"
    /\ req.id \notin Kids
    /\ resp.status = 404
    /\ \E id \in Kids : is_deleted(knowledge[id])

\* Every stored image references a stored Knowledge record
OwnerExists == \A i \in ImgIds : images[i].knowledge \in Kids

\* A step that removes Knowledge rows removes their images and no other image
CascadeOnly ==
    LET gone == Kids \ Kids'
    IN gone # {} =>
         /\ ImgIds' = { i \in ImgIds : images[i].knowledge \notin gone }
         /\ \A i \in ImgIds' : images'[i] = images[i]

\* No image that stays stored gets another owner
OwnerKept == \A i \in ImgIds \cap ImgIds' : images'[i].knowledge = images[i].knowledge

(* C17 as stated: every image references one Knowledge record that is        *)
(* stored, its owner never changes, and a hard delete of a Knowledge removes *)
(* all of its images and no image of another Knowledge.                      *)
C17_OwnerNeverChanges ==
    []OwnerExists /\ [][CascadeOnly /\ OwnerKept]_vars

(* C17 amended: every image references one Knowledge record that is stored;  *)
(* a hard delete of a Knowledge removes all of its images and no image of    *)
(* another Knowledge; no request of the REST API changes the owner of an     *)
(* image (the admin change form of KnowledgeImage can).                      *)
C17_OwnedAndCascaded ==
    []OwnerExists /\ [][CascadeOnly /\ (req'.op \notin AdminRequests => OwnerKept)]_vars

\* A Knowledge with an image has been hard-deleted: its image is gone and
\* the image of another Knowledge is still stored
C17_Witness ==
    /\ req.op = "admin_delete_knowledge"
    /\ req.id \notin Kids
    /\ resp.status = 302
    /\ "deleted" \in DOMAIN resp
    /\ resp.deleted # {}
    /\ resp.deleted \cap ImgIds = {}
    /\ \E i \in ImgIds : images[i].knowledge \in Kids \ {req.id}

(* C18: concurrent updates of one record are last-write-wins.  Every PATCH   *)
(* that gives text and has read its record as active returns 200 when it     *)
(* writes, whatever other requests wrote since it read, and right after its  *)
(* write the stored text is the text it gave: after two overlapping PATCHes  *)
(* the stored text is that of the one that wrote last.                       *)
C18_LastWriteWins ==
    [][\A w \in Workers :
         (/\ inflight[w].op = "update"
          /\ inflight'[w] = Idle
          /\ Given(inflight[w].body.text)) =>
             /\ resp'.status = 200
             /\ req'.id = inflight[w].id
             /\ req'.body = inflight[w].body
             /\ knowledge'[inflight[w].id].text = inflight[w].body.text[1]
      ]_vars

\* Two PATCHes giving different texts overlapped and both have returned: the
\* last one wrote over a text that another PATCH had stored after it read
C18_Witness ==
    /\ req.op = "update"
    /\ resp.status = 200
    /\ "found" \in DOMAIN req
    /\ Given(req.body.text)
    /\ req.found.updated_at > req.instance.updated_at
    /\ req.found.text \notin { req.instance.text, req.body.text[1] }
    /\ knowledge[req.id].text = req.body.text[1]
    /\ inflight = NoneInFlight

(* C20 as stated: once a DELETE has soft-deleted a record, the record keeps  *)
(* a non-null deleted_at and stays out of the list until a restore on it     *)
(* returns 200, also when a PATCH that read the record before the delete     *)
(* writes after it.                                                          *)
C20_InFlightUpdateKeepsDeleted ==
    [][\A id \in Kids :
         (/\ is_deleted(knowledge[id])
          /\ ~(req'.op = "restore" /\ req'.id = id /\ resp'.status = 200)) =>
             /\ is_deleted(knowledge'[id])
             /\ \A r \in ListResponses(Query(<<>>, <<>>, <<>>))' : id \notin Listed(r)
      ]_vars

(* C21 as stated: when two PATCHes on one active record overlap, one giving  *)
(* only text and the other only quiz, each changes only its own field: the   *)
(* write of a PATCH leaves a field it did not give as it is stored, so after *)
(* both have returned the record holds the new text and the new quiz.        *)
C21_OverlappingPatchesMerge ==
    [][\A w \in Workers :
         (inflight[w].op = "update" /\ inflight'[w] = Idle /\ resp'.status = 200) =>
             LET id == inflight[w].id
                 body == inflight[w].body
             IN /\ ~Given(body.text) => knowledge'[id].text = knowledge[id].text
                /\ ~Given(body.quiz) => knowledge'[id].quiz = knowledge[id].quiz
      ]_vars

(* C22: the write of a DELETE and the write of a successful restore change   *)
(* only deleted_at.  The record's user_id, text, quiz, created_at and        *)
(* updated_at stay as they are stored at the moment of the write, so a text  *)
(* or quiz that an update stored after the handler read the record is kept;  *)
(* every other record and every image is unchanged.                          *)
C22_OnlyDeletedAtWritten ==
    [][\A w \in Workers :
         (inflight[w].op \in {"destroy", "restore"} /\ inflight'[w] = Idle) =>
             LET id == inflight[w].id
             IN /\ resp'.status = IF inflight[w].op = "destroy" THEN 204 ELSE 200
                /\ knowledge' = [knowledge EXCEPT ![id].deleted_at = knowledge'[id].deleted_at]
                /\ images' = images
      ]_vars

\* A DELETE has written after a PATCH stored a new text that the DELETE had
\* not read, and the new text is still stored
C22_Witness ==
    /\ req.op = "destroy"
    /\ resp.status = 204
    /\ "found" \in DOMAIN req
    /\ req.found.text # req.instance.text
    /\ knowledge[req.id].text = req.found.text
    /\ knowledge[req.id].updated_at = req.found.updated_at
    /\ is_deleted(knowledge[req.id])

(* C23 as stated: while a record is soft-deleted, every retrieve,            *)
(* upload-image and delete-image on it is answered 404, its set of images    *)
(* does not change until a restore on it succeeds, and no request other than *)
(* a restore writes the record.                                              *)
C23_SoftDeletedIsUntouched ==
    [][\A id \in Kids :
         is_deleted(knowledge[id]) =>
             /\ (/\ <<req, resp>>' # <<req, resp>>
                 /\ req'.op \in {"retrieve", "upload_image", "delete_image"}
                 /\ req'.id = id) => resp'.status = 404
             /\ ImageRows(id)' = ImageRows(id)
             /\ knowledge'[id] # knowledge[id] => req'.op = "restore"
      ]_vars

(* C24 as stated: no image is attached to a record once its soft delete has  *)
(* completed.  Every image is created while the deleted_at of its record is  *)
(* null, and an upload-image that writes after the DELETE returned is        *)
(* answered 404 and creates no image.                                        *)
C24_NoImageAfterSoftDelete ==
    [][\A i \in ImgIds' \ ImgIds : ~is_deleted(knowledge[images'[i].knowledge])]_vars

(* C25 as stated: each soft delete is answered by at most one successful     *)
(* restore.  Of two overlapping restores on one soft-deleted record exactly  *)
(* one returns 200: a restore that writes right after another restore on the *)
(* same record has returned 200 returns 400.                                 *)
C25_OneRestorePerDelete ==
    [][\A w \in Workers :
         (/\ inflight[w].op = "restore"
          /\ inflight'[w] = Idle
          /\ req.op = "restore"
          /\ req.id = inflight[w].id
          /\ resp.status = 200) => resp'.status = 400
      ]_vars

(* C26 as stated: a restore or a delete-image whose id or image_id is not an *)
(* integer, and so matches no record, is answered 404 and never 500, as      *)
(* retrieve and delete are.                                                  *)
C26_NonIntegerIdIs404 ==
    [][(/\ <<req, resp>>' # <<req, resp>>
        /\ "pk" \in DOMAIN req'
        /\ \/ ~IsInteger(req'.pk)
           \/ "image_id" \in DOMAIN req' /\ ~IsInteger(req'.image_id)) => resp'.status = 404
      ]_vars

-----------------------------------------------------------------------------
(* C27: the images list of every record in a retrieve or list response holds *)
(* exactly the images that record owns when the response is given, each      *)
(* once, oldest created_at first; so an uploaded image is in it from the     *)
(* upload on, and a deleted image (or one moved to another record) is not.   *)
ResponseData(q, r) ==
    IF q.op = "retrieve" THEN { r.data } ELSE { r.data[i] : i \in DOMAIN r.data }

C27_ImagesInResponse ==
    [][(<<req, resp>>' # <<req, resp>> /\ req'.op \in {"retrieve", "list"} /\ resp'.status = 200) =>
          \A d \in ResponseData(req', resp') :
              /\ { d.images[i] : i \in 1..Len(d.images) } = ImagesOf(d.id)'
              /\ Len(d.images) = Cardinality(ImagesOf(d.id)')
              /\ \A i, j \in 1..Len(d.images) :
                    i < j => images'[d.images[i]].created_at <= images'[d.images[j]].created_at
      ]_vars

\* A list response with two records, one showing its two images and the
\* other none
C27_Witness ==
    /\ req.op = "list"
    /\ resp.status = 200
    /\ \E i, j \in DOMAIN resp.data :
          /\ Len(resp.data[i].images) = 2
          /\ resp.data[j].images = <<>>

-----------------------------------------------------------------------------
(* knowledge_base/middleware/prefix.py.  A string is the sequence of its     *)
(* characters; a request is what the middleware reads of it: the             *)
(* X-Script-Name header (<<>> when absent), path_info, META['SCRIPT_NAME'],  *)
(* and the FORCE_SCRIPT_NAME the settings give (<<>> for None, Django's      *)
(* value of the setting when settings.py does not assign it).                *)

MaxPathLen == 3      \* characters in a header value or a path

Alphabet == {"/", "a", "b"}
Strings(n) == UNION { [1..k -> Alphabet] : k \in 0..n }

\* str.rstrip('/')
RECURSIVE rstrip(_)
rstrip(s) == IF s # <<>> /\ s[Len(s)] = "/" THEN rstrip(SubSeq(s, 1, Len(s) - 1)) ELSE s

\* str.startswith
startswith(s, p) == Len(p) <= Len(s) /\ SubSeq(s, 1, Len(p)) = p

\* lines 41-46: the prefix, <<>> standing for the AttributeError that
\* None.rstrip('/') raises and <<p>> for a prefix p
script_name(request) ==
    LET header == IF Given(request.header) THEN request.header[1] ELSE <<>>
        from_header == IF header # <<>> THEN rstrip(header) ELSE <<>>
    IN IF from_header # <<>> THEN <<from_header>>
       ELSE IF Given(request.FORCE_SCRIPT_NAME)
       THEN <<rstrip(request.FORCE_SCRIPT_NAME[1])>>
       ELSE <<>>

\* A __call__ that strips the prefix and leaves the remainder as it is
PrefixMiddleware_no_slash(request) ==
    IF ~Given(script_name(request)) THEN [status |-> 500, called |-> FALSE]
    ELSE LET prefix == script_name(request)[1]
             path == request.path_info
         IN IF prefix = <<>>
            THEN [status |-> 0, called |-> TRUE,
                  path_info |-> path, SCRIPT_NAME |-> request.SCRIPT_NAME]
            ELSE [status |-> 0, called |-> TRUE,
                  path_info |-> IF startswith(path, prefix)
                                THEN SubSeq(path, Len(prefix) + 1, Len(path))
                                ELSE path,
                  SCRIPT_NAME |-> prefix]

\* PrefixMiddleware.__call__: the request get_response is called with, or
\* the 500 of an exception raised before the call
PrefixMiddleware(request) ==
    IF ~Given(script_name(request)) THEN [status |-> 500, called |-> FALSE]
    ELSE LET prefix == script_name(request)[1]
             path == request.path_info
             rest == SubSeq(path, Len(prefix) + 1, Len(path))
         IN IF prefix = <<>>
            THEN [status |-> 0, called |-> TRUE,
                  path_info |-> path, SCRIPT_NAME |-> request.SCRIPT_NAME]
            ELSE [status |-> 0, called |-> TRUE,
                  path_info |-> IF startswith(path, prefix)
                                THEN IF startswith(rest, <<"/">>) THEN rest ELSE <<"/">> \o rest
                                ELSE path,
                  SCRIPT_NAME |-> prefix]

\* Header values a proxy may send, paths (WSGIRequest.path_info starts with
\* '/'), and values of the setting
HeaderValues == Opt(Strings(MaxPathLen))
PathInfos == { <<"/">> \o s : s \in Strings(MaxPathLen - 1) }
ForceScriptNames == Opt({ <<>>, <<"/">>, <<"/", "a">>, <<"/", "a", "/">>, <<"/", "b">> })
ScriptNames == { <<>>, <<"/", "b">> }

InitPrefix ==
    /\ knowledge = << >>
    /\ images = << >>
    /\ nextKid = 1
    /\ nextImg = 1
    /\ now = 1
    /\ req \in { [op |-> "request", header |-> h, path_info |-> p,
                  SCRIPT_NAME |-> n, FORCE_SCRIPT_NAME |-> f] :
                 h \in HeaderValues, p \in PathInfos, n \in ScriptNames, f \in ForceScriptNames }
    /\ resp = [status |-> 0]
    /\ inflight = NoneInFlight

\* The middleware handles the request
Call ==
    /\ resp = [status |-> 0]
    /\ resp' = PrefixMiddleware(req)
    /\ UNCHANGED <<knowledge, images, nextKid, nextImg, now, req, inflight>>

NextPrefix == Call

SpecPrefix == InitPrefix /\ [][NextPrefix]_vars

\* The middleware has handled the request
Called == resp # [status |-> 0]

\* s with its trailing slashes removed is p
Stripped(s, p) ==
    /\ \E k \in 0..Len(s) : s = p \o [i \in 1..k |-> "/"]
    /\ p = <<>> \/ p[Len(p)] # "/"

-----------------------------------------------------------------------------
(* C28: with a non-empty prefix P (the X-Script-Name header without its      *)
(* trailing slashes), a path_info that starts with P is replaced by what     *)
(* follows P, with a '/' put in front unless it already starts with one; a   *)
(* path_info that does not start with P is left alone; in both cases the     *)
(* next handler is called with META['SCRIPT_NAME'] = P.                      *)
C28_PrefixIsStripped ==
    (Called /\ Given(req.header)) =>
        \A P \in Strings(MaxPathLen) \ { <<>> } :
            Stripped(req.header[1], P) =>
                /\ resp.called
                /\ resp.SCRIPT_NAME = P
                /\ \A rest \in Strings(MaxPathLen) :
                      req.path_info = P \o rest =>
                          resp.path_info = IF rest # <<>> /\ rest[1] = "/" THEN rest
                                           ELSE <<"/">> \o rest
                /\ (\A rest \in Strings(MaxPathLen) : req.path_info # P \o rest) =>
                          resp.path_info = req.path_info

\* The header "/a/" and the path "/ab": the handler sees "/b" under "/a"
C28_Witness ==
    /\ Called
    /\ req.header = << <<"/", "a", "/">> >>
    /\ req.path_info = <<"/", "a", "b">>
    /\ resp.path_info = <<"/", "b">>
    /\ resp.SCRIPT_NAME = <<"/", "a">>

-----------------------------------------------------------------------------
====
